---- MODULE Spec2Model ----
(***************************************************************************)
(* A model of the notebook data model of jupyter-js-notebook:              *)
(*   - NotebookModel  (src/src/notebook/model.ts, lines 1-485)             *)
(*   - the cell models BaseCellModel / CodeCellModel / MarkdownCellModel / *)
(*     RawCellModel and MetadataCursor (same file, lines 1026-1653)        *)
(* JavaScript values are records [t |-> typeof, v |-> text]; a serialized  *)
(* value (JSON text) is a TLA+ string.                                     *)
(***************************************************************************)
EXTENDS Integers, Sequences, FiniteSets, TLC

VARIABLES
  cells,       \* the cell objects: [CellIds -> cell record], type "none" = not constructed
  outputs,     \* the output area constructed for each code cell
  signalData,  \* phosphor-signaling connections, per sender and signal
  list,        \* NotebookModel._cells, the observable list (a sequence of cell ids)
  nb,          \* the NotebookModel's own fields
  change,      \* the IListChangedArgs of the last list operation (NoChange otherwise)
  emitted,     \* the change records emitted by the last operation, in order
  delivered,   \* the handler invocations of the last operation, in order
  call,        \* the last setter or accessor call: its name, target and argument
  result,      \* what the last operation returned or threw
  disposeCalls, \* history: how many times a caller invoked dispose() on each cell
  inputCell,   \* a code cell over an input area and its editor (model.ts 487-1024)
  observed     \* the models as each handler invocation of the last operation found them

vars == <<cells, outputs, signalData, list, nb, change, emitted, delivered,
          call, result, disposeCalls, inputCell, observed>>

----------------------------------------------------------------------------
(* Bounds of the model.                                                    *)

MaxList == 2
MaxCalls == 2

CellIds == {1, 2}
Handlers == {"h1"}
Signals == {"stateChanged", "metadataChanged"}

----------------------------------------------------------------------------
(* JavaScript values.                                                      *)

JNull == [t |-> "null", v |-> "null"]
JBool(b) == [t |-> "boolean", v |-> IF b THEN "true" ELSE "false"]
JStr(s) == [t |-> "string", v |-> s]
JNum(n) == [t |-> "number", v |-> ToString(n)]
\* An object and an array, each with its content.
JObj(content) == [t |-> "object", v |-> content]
JArr(items) == [t |-> "array", v |-> items]

Undefined == [t |-> "undefined", v |-> "undefined"]

JTrue == JBool(TRUE)
JFalse == JBool(FALSE)

\* a === b.  An object is === only to itself; the objects compared in this
\* program are a fresh JSON.parse result and a caller's value, so two
\* object operands are never the same reference.
StrictEquals(a, b) == a.t \notin {"object", "array"} /\ a = b

----------------------------------------------------------------------------
(* JSON text.  JSON.stringify builds the text; JSON.parse is its inverse   *)
(* over the values the program can have serialized.                        *)

Tags == {"t1", "t2"}
MaxTags == 2
TagArrays == UNION {[1..n -> Tags] : n \in 0..MaxTags}

StringifyString(s) == "\"" \o s \o "\""

RECURSIVE StringifyItems(_)
StringifyItems(a) ==
  IF Len(a) = 0 THEN ""
  ELSE IF Len(a) = 1 THEN StringifyString(a[1])
  ELSE StringifyString(a[1]) \o "," \o StringifyItems(Tail(a))

\* JSON.stringify of a string[]
StringifyArray(a) == "[" \o StringifyItems(a) \o "]"

\* JSON.parse of the text of a string[]
ParseArray(text) == CHOOSE a \in TagArrays : StringifyArray(a) = text

\* Comparison by reference: false for any two distinct objects.
shallowEquals_byReference(o1, o2) == FALSE

\* Comparison of the key sets alone.
shallowEquals_keysOnly(o1, o2) == DOMAIN o1 = DOMAIN o2

\* shallowEquals(o1, o2) of jupyter-js-utils on two distinct non-null objects
\* (arrays or plain objects, as functions from their keys): the same number
\* of keys, and every key of o1 is a key of o2 with a === value.
shallowEquals(o1, o2) ==
  /\ Cardinality(DOMAIN o1) = Cardinality(DOMAIN o2)
  /\ \A k \in DOMAIN o1 : k \in DOMAIN o2 /\ StrictEquals(o1[k], o2[k])

\* A string[] as the object shallowEquals sees: index -> string value.
AsObject(a) == [i \in DOMAIN a |-> JStr(a[i])]

----------------------------------------------------------------------------
(* Cell objects.                                                           *)

NotebookId == 0
Senders == CellIds \cup {NotebookId}

OutputRef == JObj("OutputAreaModel")

\* A slot in which no cell has been constructed yet.
NoCell ==
  [type |-> "none", _disposed |-> FALSE, _source |-> JNull, _tags |-> "[]",
   _name |-> JNull, _trusted |-> JFalse, _output |-> JNull,
   _scrolled |-> JFalse, _collapsed |-> JFalse, _executionCount |-> JNull,
   _format |-> JNull, _metadata |-> <<>>]

\* new OutputAreaModel(), as far as this model sees it
NoOutput == [trusted |-> JFalse, outputs |-> <<>>, disposeCalls |-> 0]

NoConnections == [sig \in Signals |-> <<>>]

NotebookSignals == {"contentChanged", "metadataChanged"}
NoNotebookConnections == [sig \in NotebookSignals |-> <<>>]

NoChange == [type |-> "None", oldValue |-> <<>>]

\* The state an operation works on; Commit makes it the next state.
World ==
  [cells |-> cells, outputs |-> outputs, signalData |-> signalData, nb |-> nb,
   ia |-> inputCell, emitted |-> <<>>, delivered |-> <<>>, observed |-> <<>>,
   error |-> "none"]

Throw(w, e) == [w EXCEPT !.error = e]

\* What a handler that is invoked in world w can read of the models.
Snapshot(w) == [cells |-> w.cells, nb |-> w.nb, outputs |-> w.outputs]

\* An emit of a signal that is not bound to its sender: it reaches the
\* handlers connected to the signal on any owner.
Emit_anyOwner(w, sender, sig, args) ==
  LET of(s) == IF sig \in DOMAIN w.signalData[s] THEN w.signalData[s][sig]
               ELSE <<>>
      conns == of(NotebookId) \o of(1) \o of(2)
  IN [w EXCEPT
        !.emitted = Append(@, [sender |-> sender, signal |-> sig, args |-> args]),
        !.delivered = @ \o [i \in 1..Len(conns) |->
                             [handler |-> conns[i], sender |-> sender,
                              signal |-> sig, args |-> args]],
        !.observed = @ \o [i \in 1..Len(conns) |-> Snapshot(w)]]

\* Signal.emit: every handler connected to (sender, sig), in connection order.
Emit(w, sender, sig, args) ==
  LET conns == w.signalData[sender][sig]
  IN [w EXCEPT
        !.emitted = Append(@, [sender |-> sender, signal |-> sig, args |-> args]),
        !.delivered = @ \o [i \in 1..Len(conns) |->
                             [handler |-> conns[i], sender |-> sender,
                              signal |-> sig, args |-> args]],
        !.observed = @ \o [i \in 1..Len(conns) |-> Snapshot(w)]]

ChangedArgs(name, oldValue, newValue) ==
  [name |-> name, oldValue |-> oldValue, newValue |-> newValue]

----------------------------------------------------------------------------
(* BaseCellModel and its subclasses: the property setters.                 *)

\* BaseCellModel.source (set)
source_set(w, c, newValue) ==
  IF StrictEquals(newValue, w.cells[c]._source) THEN w
  ELSE LET oldValue == w.cells[c]._source
           w1 == [w EXCEPT !.cells[c]._source = newValue]
       IN Emit(w1, c, "stateChanged", ChangedArgs("source", oldValue, newValue))

\* The onTrustChanged of BaseCellModel alone, not overridden.
onTrustChanged_base(w, c, value) == w

\* BaseCellModel.onTrustChanged (a no-op) and CodeCellModel.onTrustChanged
onTrustChanged(w, c, value) ==
  IF w.cells[c].type = "code"
  THEN IF w.cells[c]._output = JNull
       THEN Throw(w, "TypeError")
       ELSE [w EXCEPT !.outputs[c].trusted = value]
  ELSE w

\* A trusted setter that announces the change before it runs the hook.
trusted_set_hookLast(w, c, newValue) ==
  IF StrictEquals(newValue, w.cells[c]._trusted) THEN w
  ELSE LET oldValue == w.cells[c]._trusted
           w1 == [w EXCEPT !.cells[c]._trusted = newValue]
       IN onTrustChanged(Emit(w1, c, "stateChanged",
                              ChangedArgs("trusted", oldValue, newValue)),
                         c, newValue)

\* BaseCellModel.trusted (set)
trusted_set(w, c, newValue) ==
  IF StrictEquals(newValue, w.cells[c]._trusted) THEN w
  ELSE LET oldValue == w.cells[c]._trusted
           w1 == [w EXCEPT !.cells[c]._trusted = newValue]
           w2 == onTrustChanged(w1, c, newValue)
       IN IF w2.error # "none" THEN w2
          ELSE Emit(w2, c, "stateChanged", ChangedArgs("trusted", oldValue, newValue))

\* BaseCellModel.name (set)
name_set(w, c, newValue) ==
  IF StrictEquals(newValue, w.cells[c]._name) THEN w
  ELSE LET oldValue == w.cells[c]._name
           w1 == [w EXCEPT !.cells[c]._name = newValue]
       IN Emit(w1, c, "stateChanged", ChangedArgs("name", oldValue, newValue))

\* BaseCellModel.tags (get)
tags_get(cell) == ParseArray(cell._tags)

\* BaseCellModel.tags (set); newValue is a string[]
tags_set(w, c, newValue) ==
  LET oldValue == ParseArray(w.cells[c]._tags)
  IN IF shallowEquals(AsObject(oldValue), AsObject(newValue)) THEN w
     ELSE LET w1 == [w EXCEPT !.cells[c]._tags = StringifyArray(newValue)]
          IN Emit(w1, c, "stateChanged",
                  ChangedArgs("tags", JArr(oldValue), JArr(newValue)))

\* CodeCellModel.executionCount (set)
executionCount_set(w, c, value) ==
  IF StrictEquals(w.cells[c]._executionCount, value) THEN w
  ELSE LET prev == w.cells[c]._executionCount
           w1 == [w EXCEPT !.cells[c]._executionCount = value]
       IN Emit(w1, c, "stateChanged", ChangedArgs("executionCount", prev, value))

\* CodeCellModel.collapsed (set)
collapsed_set(w, c, value) ==
  IF StrictEquals(w.cells[c]._collapsed, value) THEN w
  ELSE LET prev == w.cells[c]._collapsed
           w1 == [w EXCEPT !.cells[c]._collapsed = value]
       IN Emit(w1, c, "stateChanged", ChangedArgs("collapsed", prev, value))

\* scrolled (set) without the guard on the current value.
scrolled_set_unguarded(w, c, value) ==
  LET prev == w.cells[c]._scrolled
      w1 == [w EXCEPT !.cells[c]._scrolled = value]
  IN Emit(w1, c, "stateChanged", ChangedArgs("scrolled", prev, value))

\* CodeCellModel.scrolled (set)
scrolled_set(w, c, value) ==
  IF StrictEquals(w.cells[c]._scrolled, value) THEN w
  ELSE LET prev == w.cells[c]._scrolled
           w1 == [w EXCEPT !.cells[c]._scrolled = value]
       IN Emit(w1, c, "stateChanged", ChangedArgs("scrolled", prev, value))

\* RawCellModel.format (set)
format_set(w, c, value) ==
  IF StrictEquals(w.cells[c]._format, value) THEN w
  ELSE LET prev == w.cells[c]._format
           w1 == [w EXCEPT !.cells[c]._format = value]
       IN Emit(w1, c, "stateChanged", ChangedArgs("format", prev, value))

----------------------------------------------------------------------------
(* Disposal.                                                               *)

\* An isDisposed that never reports disposal.
isDisposed_never(cell) == FALSE

\* BaseCellModel.isDisposed (get)
isDisposed(cell) == TRUE

\* clearSignalData(this): drops every connection of the sender.
clearSignalData(w, c) == [w EXCEPT !.signalData[c] = NoConnections]

\* BaseCellModel.dispose
BaseCellModel_dispose(w, c) ==
  IF isDisposed(w.cells[c]) THEN w
  ELSE LET w1 == clearSignalData(w, c)
       IN [w1 EXCEPT !.cells[c]._disposed = TRUE]

\* CodeCellModel.dispose
CodeCellModel_dispose(w, c) ==
  IF isDisposed(w.cells[c]) THEN w
  ELSE IF w.cells[c]._output = JNull THEN Throw(w, "TypeError")
  ELSE LET w1 == [w EXCEPT !.outputs[c].disposeCalls = @ + 1]
           w2 == [w1 EXCEPT !.cells[c]._output = JNull]
       IN BaseCellModel_dispose(w2, c)

\* cell.dispose(), dispatched on the cell's class
dispose(w, c) ==
  IF w.cells[c].type = "code" THEN CodeCellModel_dispose(w, c)
  ELSE BaseCellModel_dispose(w, c)

----------------------------------------------------------------------------
(* NotebookModel: the cell list and the cell factories.                    *)

Created == {c \in CellIds : cells[c].type # "none"}

\* The slot the next constructed cell object takes.
NextId == CHOOSE c \in CellIds \ Created : \A d \in CellIds \ Created : c <= d

\* IListChangedArgs of the observable list.  oldValue is kept as a sequence
\* for every change type: the one removed or overwritten item of a Remove or
\* a Set, the removed items of a Replace.
ListChange(type, oldValue) == [type |-> type, oldValue |-> oldValue]

RECURSIVE DisposeEach(_, _)
\* for (cell of oldValues) { cell.dispose(); }  -- a throw ends the loop
DisposeEach(w, oldValues) ==
  IF Len(oldValues) = 0 \/ w.error # "none" THEN w
  ELSE DisposeEach(dispose(w, Head(oldValues)), Tail(oldValues))

\* NotebookModel.onCellsChanged
onCellsChanged(w, ch) ==
  IF ch.type = "Remove" THEN dispose(w, ch.oldValue[1])
  ELSE IF ch.type = "Replace" THEN DisposeEach(w, ch.oldValue)
  ELSE w

\* The arguments a caller can pass as the optional source cell.
SourceArgs == {<<>>} \cup {<<c>> : c \in Created}

\* A shared part that does not copy the tags.
CopyShared_withoutTags(w, id, source) ==
  LET w1 == trusted_set(w, id, JTrue)
  IN IF source = <<>> THEN w1
     ELSE source_set(trusted_set(w1, id, w.cells[source[1]]._trusted),
                     id, w.cells[source[1]]._source)

\* The part of the factories shared by the three cell types.
CopyShared(w, id, source) ==
  LET w1 == trusted_set(w, id, JTrue)
  IN IF source = <<>> THEN w1
     ELSE LET src == w.cells[source[1]]
              w2 == trusted_set(w1, id, src._trusted)
              w3 == source_set(w2, id, src._source)
          IN tags_set(w3, id, tags_get(src))

\* A createCodeCell that leaves the new cell's output list empty.
createCodeCell_withoutOutputs(w, id, source) ==
  LET w0 == [w EXCEPT !.cells[id] = [NoCell EXCEPT !.type = "code",
                                                   !._output = OutputRef],
                      !.outputs[id] = NoOutput]
      w1 == CopyShared(w0, id, source)
  IN IF source = <<>> \/ w.cells[source[1]].type # "code" THEN w1
     ELSE scrolled_set(collapsed_set(w1, id, w.cells[source[1]]._collapsed),
                       id, w.cells[source[1]]._scrolled)

\* NotebookModel.createCodeCell
createCodeCell_(w, id, source) ==
  LET w0 == [w EXCEPT !.cells[id] = [NoCell EXCEPT !.type = "code",
                                                   !._output = OutputRef],
                      !.outputs[id] = NoOutput]
      w1 == CopyShared(w0, id, source)
  IN IF source = <<>> \/ w.cells[source[1]].type # "code" THEN w1
     ELSE LET s == source[1]
              w2 == collapsed_set(w1, id, w.cells[s]._collapsed)
              w3 == scrolled_set(w2, id, w.cells[s]._scrolled)
          IN IF w.cells[s]._output = JNull THEN Throw(w3, "TypeError")
             ELSE [w3 EXCEPT !.outputs[id].outputs = @ \o w.outputs[s].outputs]

\* NotebookModel.createMarkdownCell
createMarkdownCell_(w, id, source) ==
  CopyShared([w EXCEPT !.cells[id] = [NoCell EXCEPT !.type = "markdown"]],
             id, source)

\* NotebookModel.createRawCell
createRawCell_(w, id, source) ==
  LET w1 == CopyShared([w EXCEPT !.cells[id] = [NoCell EXCEPT !.type = "raw"]],
                       id, source)
  IN IF source # <<>> /\ w.cells[source[1]].type = "raw"
     THEN format_set(w1, id, w.cells[source[1]]._format)
     ELSE w1

----------------------------------------------------------------------------
(* NotebookModel: kernelspec, languageInfo and origNbformat.               *)

\* The keys of the metadata objects, in the order JSON.stringify writes them.
ObjectKeys == <<"name", "display_name", "codemirror_mode">>

RECURSIVE StringifyValue(_), StringifyFields(_, _, _)
\* JSON.stringify of a string, of null, or of an object with ObjectKeys
StringifyValue(x) ==
  IF x.t = "string" THEN StringifyString(x.v)
  ELSE IF x.t = "object" THEN "{" \o StringifyFields(x.v, 1, "") \o "}"
  ELSE "null"

StringifyFields(o, i, sep) ==
  IF i > Len(ObjectKeys) THEN ""
  ELSE IF ObjectKeys[i] \in DOMAIN o
       THEN sep \o StringifyString(ObjectKeys[i]) \o ":"
            \o StringifyValue(o[ObjectKeys[i]]) \o StringifyFields(o, i + 1, ",")
       ELSE StringifyFields(o, i + 1, sep)

\* const DEFAULT_KERNELSPEC, const DEFAULT_LANG_INFO
DEFAULT_KERNELSPEC == [name |-> JStr("unknown"), display_name |-> JStr("No Kernel!")]
DEFAULT_LANG_INFO == [name |-> JStr("unknown")]

\* The IKernelspecMetadata values a caller writes.
KernelSpecs ==
  {[name |-> JStr(n), display_name |-> JStr(d)] :
     n \in {"unknown", "python3"}, d \in {"No Kernel!", "Python 3"}}

\* The ILanguageInfoMetadata values a caller writes: codemirror_mode is
\* optional, and is a string or an object.
CodeMirrorModes == {JStr("python"), JObj([name |-> JStr("ipython")])}
LangInfos ==
  {[name |-> JStr(n)] : n \in {"unknown", "python"}}
    \cup {[name |-> JStr(n), codemirror_mode |-> m] :
            n \in {"unknown", "python"}, m \in CodeMirrorModes}

\* JSON.parse of the text of one of the objects of universe
ParseObject(text, universe) ==
  CHOOSE o \in universe : StringifyValue(JObj(o)) = text

\* NotebookModel.kernelspec (get)
kernelspec_get(n) == ParseObject(n._kernelspec, KernelSpecs)

\* NotebookModel.kernelspec (set)
kernelspec_set(w, newValue) ==
  LET oldValue == ParseObject(w.nb._kernelspec, KernelSpecs)
  IN IF shallowEquals(oldValue, newValue) THEN w
     ELSE LET w1 == [w EXCEPT !.nb._kernelspec = StringifyValue(JObj(newValue))]
          IN Emit(w1, NotebookId, "contentChanged",
                  ChangedArgs("kernelspec", JObj(oldValue), JObj(newValue)))

\* NotebookModel.languageInfo (get)
languageInfo_get(n) == ParseObject(n._langInfo, LangInfos)

\* NotebookModel.languageInfo (set)
languageInfo_set(w, newValue) ==
  LET oldValue == ParseObject(w.nb._langInfo, LangInfos)
  IN IF shallowEquals(oldValue, newValue) THEN w
     ELSE LET w1 == [w EXCEPT !.nb._langInfo = StringifyValue(JObj(newValue))]
          IN Emit(w1, NotebookId, "contentChanged",
                  ChangedArgs("languageInfo", JObj(oldValue), JObj(newValue)))

\* NotebookModel.origNbformat (set)
origNbformat_set(w, newValue) ==
  IF StrictEquals(newValue, w.nb._origNbformat) THEN w
  ELSE LET oldValue == w.nb._origNbformat
           w1 == [w EXCEPT !.nb._origNbformat = newValue]
       IN Emit(w1, NotebookId, "contentChanged",
               ChangedArgs("origNbformat", oldValue, newValue))

----------------------------------------------------------------------------
(* Metadata cursors: getMetadata of the notebook and of a cell.            *)

\* Array.prototype.indexOf, 1-based; 0 where JavaScript gives -1.
ArrayIndexOf(arr, x) ==
  IF \E i \in 1..Len(arr) : arr[i] = x
  THEN CHOOSE i \in 1..Len(arr) : arr[i] = x /\ \A j \in 1..(i - 1) : arr[j] # x
  ELSE 0

\* Error(`Use model attribute for ${key} directly`)
UseAttributeError(key) == "Error: Use model attribute for " \o key \o " directly"

\* new MetadataCursor(name, owner._metadata, owner._cursorCallback)
MetadataCursor(name, owner) ==
  JObj([_name |-> name, _metadata |-> owner, _cb |-> owner])

\* A blacklist that spells the notebook's fields as the notebook format does.
NotebookInvalid_snakeCase == <<"kernelspec", "language_info", "orig_nbformat">>

\* let invalid = [...] in NotebookModel.getMetadata
NotebookInvalid == <<"kernelspec", "languageInfo", "origNbformat">>

\* A blacklist that spells the execution count as the model attribute does.
CellBlacklist_camelCase ==
  <<"tags", "name", "trusted", "collapsed", "scrolled", "executionCount", "format">>

\* let blacklist = [...] in BaseCellModel.getMetadata
CellBlacklist ==
  <<"tags", "name", "trusted", "collapsed", "scrolled", "execution_count", "format">>

\* NotebookModel.getMetadata and BaseCellModel.getMetadata: the world after
\* the call (with the error, if it threw) and the value returned.
getMetadata(w, owner, name) ==
  LET invalid == IF owner = NotebookId THEN NotebookInvalid ELSE CellBlacklist
  IN IF ArrayIndexOf(invalid, name) # 0
     THEN LET key == invalid[ArrayIndexOf(invalid, name)]
          IN [w |-> Throw(w, UseAttributeError(key)), value |-> Undefined]
     ELSE [w |-> w, value |-> MetadataCursor(name, owner)]

\* The namespaces a caller asks for.
Namespaces ==
  {"kernelspec", "languageInfo", "origNbformat", "tags", "name", "trusted",
   "collapsed", "scrolled", "execution_count", "format",
   "myext", "executionCount", "language_info", "source"}

\* The JSON-representable values a caller stores through a cursor: null, a
\* number, strings (one of them the text of that number), a boolean, an
\* array and an object.
MetaValues ==
  {JNull, JNum(1), JStr("1"), JStr("a"), JTrue, JArr(<<"t1">>),
   JObj([name |-> JStr("a")])}

\* JSON.stringify of one of these values
JSON_stringify(x) ==
  IF x.t \in {"number", "boolean"} THEN x.v
  ELSE IF x.t = "array" THEN StringifyArray(x.v)
  ELSE StringifyValue(x)

\* JSON.parse of a text written by JSON_stringify
JSON_parse(text) == CHOOSE x \in MetaValues : JSON_stringify(x) = text

\* owner._metadata, an object created by Object.create(null): its entries
\* <<key, text>> in insertion order.
MetadataOf(w, owner) ==
  IF owner = NotebookId THEN w.nb._metadata ELSE w.cells[owner]._metadata

\* this._metadata[name]: the stored text as a string value, or undefined
MetadataEntry(m, name) ==
  IF \E i \in 1..Len(m) : m[i][1] = name
  THEN JStr(m[CHOOSE i \in 1..Len(m) : m[i][1] = name][2])
  ELSE Undefined

\* this._metadata[name] = text: an existing key keeps its place
MetadataStore(m, name, text) ==
  IF \E i \in 1..Len(m) : m[i][1] = name
  THEN [i \in 1..Len(m) |-> IF m[i][1] = name THEN <<name, text>> ELSE m[i]]
  ELSE Append(m, <<name, text>>)

\* MetadataCursor.getValue
getValue(w, cursor) ==
  LET stored == MetadataEntry(MetadataOf(w, cursor.v._metadata), cursor.v._name)
  IN JSON_parse(IF stored.t = "string" /\ stored.v # "" THEN stored.v ELSE "null")

\* MetadataCursor.setValue: prev is the stored text, compared by === with
\* the value itself; the callback is the owner's _cursorCallback, which
\* emits metadataChanged with the name.
setValue(w, cursor, value) ==
  LET owner == cursor.v._metadata
      name == cursor.v._name
      prev == MetadataEntry(MetadataOf(w, owner), name)
      m == MetadataStore(MetadataOf(w, owner), name, JSON_stringify(value))
  IN IF StrictEquals(prev, value) THEN w
     ELSE Emit(IF owner = NotebookId THEN [w EXCEPT !.nb._metadata = m]
               ELSE [w EXCEPT !.cells[owner]._metadata = m],
               cursor.v._cb, "metadataChanged", JStr(name))

\* NotebookModel.listMetadata and BaseCellModel.listMetadata: Object.keys
listMetadata(w, owner) ==
  LET m == MetadataOf(w, owner) IN JArr([i \in 1..Len(m) |-> m[i][1]])

----------------------------------------------------------------------------
(* The cell model over an input area (model.ts 487-1024) with the          *)
(* InputAreaModel (input-area/model.ts) and the editor model it wraps.     *)

\* The attributes of the editor model that change: the three the input
\* area and the cell use, and one they do not.
EditorAttributes == {"dirty", "readOnly", "focused", "lineNumbers"}

\* A new editor model: its flags are off.
NoEditor == [a \in EditorAttributes |-> JFalse]

\* Before construction: a new editor, an input area whose prompt and
\* collapsed properties are unset, an execution count at its property's
\* default.
NoInputCell ==
  [constructed |-> FALSE,
   editor |-> NoEditor,
   input |-> [prompt |-> Undefined, collapsed |-> Undefined],
   executionCount |-> JNull]

\* An emission of sender's stateChanged, as a record.
StateChanged(sender, args) ==
  [sender |-> sender, signal |-> "stateChanged", args |-> args]

\* cell.stateChanged.emit(args)
CellEmit(w, args) == [w EXCEPT !.emitted = Append(@, StateChanged("cell", args))]

\* BaseCellModel.onInputChanged
onInputChanged(w, args) ==
  IF args.name = "dirty" \/ args.name = "readOnly" THEN CellEmit(w, args) ELSE w

\* input.stateChanged.emit(args): the cell's constructor connected
\* onInputChanged.
InputEmit(w, args) ==
  onInputChanged([w EXCEPT !.emitted = Append(@, StateChanged("input", args))],
                 args)

\* InputAreaModel.onEditorChanged
InputAreaModel_onEditorChanged(w, args) ==
  IF args.name = "dirty" THEN InputEmit(w, args) ELSE w

\* An onEditorChanged of the cell that announces the mode without the old one.
BaseCellModel_onEditorChanged_newOnly(w, args) ==
  IF args.name # "focused" THEN w
  ELSE CellEmit(w, ChangedArgs("mode", Undefined,
                               JStr(IF args.newValue = JTrue THEN "edit"
                                    ELSE "command")))

\* BaseCellModel.onEditorChanged
BaseCellModel_onEditorChanged(w, args) ==
  IF args.name = "focused"
  THEN IF args.newValue = JTrue
       THEN CellEmit(w, ChangedArgs("mode", JStr("command"), JStr("edit")))
       ELSE CellEmit(w, ChangedArgs("mode", JStr("edit"), JStr("command")))
  ELSE w

\* editor.stateChanged.emit(args): the input area's constructor connected
\* its onEditorChanged first, the cell's constructor its own after it.
EditorEmit(w, args) ==
  LET w1 == [w EXCEPT !.emitted = Append(@, StateChanged("editor", args))]
  IN BaseCellModel_onEditorChanged(InputAreaModel_onEditorChanged(w1, args), args)

\* The editor model's setter of one of its attributes: an observable
\* property, which stores and announces a value that is not the current one.
editor_set(w, name, value) ==
  IF StrictEquals(w.ia.editor[name], value) THEN w
  ELSE EditorEmit([w EXCEPT !.ia.editor[name] = value],
                  ChangedArgs(name, w.ia.editor[name], value))

\* InputAreaModel.prompt (set): promptProperty.set
prompt_set(w, value) ==
  IF StrictEquals(w.ia.input.prompt, value) THEN w
  ELSE InputEmit([w EXCEPT !.ia.input.prompt = value],
                 ChangedArgs("prompt", w.ia.input.prompt, value))

\* BaseCellModel.mode (get)
mode_get(ia) == IF ia.editor.focused = JTrue THEN "edit" ELSE "command"

\* BaseCellModel.mode (set)
mode_set(w, value) == editor_set(w, "focused", JBool(value = "edit"))

\* BaseCellModel.dirty (set) through InputAreaModel.dirty (set)
dirty_set(w, value) == editor_set(w, "dirty", value)

\* BaseCellModel.readOnly (set) through InputAreaModel.readOnly (set)
readOnly_set(w, value) == editor_set(w, "readOnly", value)

\* A prompt text that writes the value as it is.
PromptText_unguarded(value) == "In [" \o value.v \o "]:"

\* `In [${value === null ? ' ' : value}]:`
PromptText(value) ==
  "In [" \o (IF StrictEquals(value, JNull) THEN " " ELSE value.v) \o "]:"

\* CodeCellModel.executionCount (set): executionCountProperty.set, then
\* the prompt
executionCount_set_input(w, value) ==
  LET w1 == IF StrictEquals(w.ia.executionCount, value) THEN w
            ELSE CellEmit([w EXCEPT !.ia.executionCount = value],
                          ChangedArgs("executionCount", w.ia.executionCount, value))
  IN prompt_set(w1, JStr(PromptText(value)))

\* new CodeCellModel(new InputAreaModel(editor), output)
CodeCellModel_constructor(w) ==
  prompt_set([w EXCEPT !.ia.constructed = TRUE], JStr("In [ ]:"))

----------------------------------------------------------------------------
(* Actions.                                                                *)

\* What the call returned (Undefined for a setter or a void method), or threw.
Result(value, w) ==
  [error |-> w.error, value |-> IF w.error = "none" THEN value ELSE Undefined]

\* A call of a setter or an accessor, and the absence of one.
Call(op, target, arg) == [op |-> op, target |-> target, arg |-> arg]
NoCall == Call("none", NotebookId, Undefined)

\* The next state is world w, after call cl returned or threw res.
Commit(w, cl, res) ==
  /\ cells' = w.cells
  /\ nb' = w.nb
  /\ call' = cl
  /\ outputs' = w.outputs
  /\ signalData' = w.signalData
  /\ emitted' = w.emitted
  /\ delivered' = w.delivered
  /\ inputCell' = w.ia
  /\ observed' = w.observed
  /\ result' = res

\* The next state after a list operation: the list changed to newList and
\* emitted ch, which NotebookModel.onCellsChanged handled.  An exception of
\* the handler is caught by the signal's dispatch and does not reach the
\* caller of the list operation.
CommitList(newList, ch) ==
  LET w == onCellsChanged(World, ch)
  IN /\ Len(newList) <= MaxList
     /\ list' = newList
     /\ change' = ch
     /\ Commit(w, NoCall, Result(Undefined, [w EXCEPT !.error = "none"]))
     /\ UNCHANGED disposeCalls

Init ==
  /\ cells = [c \in CellIds |-> NoCell]
  /\ outputs = [c \in CellIds |-> NoOutput]
  /\ signalData = [s \in Senders |->
                    IF s = NotebookId THEN NoNotebookConnections ELSE NoConnections]
  /\ list = <<>>
  /\ nb = [_kernelspec |-> StringifyValue(JObj(DEFAULT_KERNELSPEC)),
           _langInfo |-> StringifyValue(JObj(DEFAULT_LANG_INFO)),
           _origNbformat |-> JNull, _metadata |-> <<>>]
  /\ change = NoChange
  /\ emitted = <<>>
  /\ delivered = <<>>
  /\ call = NoCall
  /\ result = [error |-> "none", value |-> Undefined]
  /\ disposeCalls = [c \in CellIds |-> 0]
  /\ inputCell = NoInputCell
  /\ observed = <<>>

CreateCodeCell ==
  /\ Created # CellIds
  /\ \E source \in SourceArgs :
       LET w == createCodeCell_(World, NextId, source)
       IN Commit(w, Call("createCodeCell", NextId, JObj(source)), Result(Undefined, w))
  /\ UNCHANGED <<list, disposeCalls>>
  /\ change' = NoChange

CreateMarkdownCell ==
  /\ Created # CellIds
  /\ \E source \in SourceArgs :
       LET w == createMarkdownCell_(World, NextId, source)
       IN Commit(w, Call("createMarkdownCell", NextId, JObj(source)), Result(Undefined, w))
  /\ UNCHANGED <<list, disposeCalls>>
  /\ change' = NoChange

CreateRawCell ==
  /\ Created # CellIds
  /\ \E source \in SourceArgs :
       LET w == createRawCell_(World, NextId, source)
       IN Commit(w, Call("createRawCell", NextId, JObj(source)), Result(Undefined, w))
  /\ UNCHANGED <<list, disposeCalls>>
  /\ change' = NoChange

\* signal.connect(handler) on a cell's stateChanged or metadataChanged;
\* connecting a handler that is already connected changes nothing.
Connect ==
  \E c \in Created, sig \in Signals, h \in Handlers :
    LET conns == signalData[c][sig]
        w == IF \E i \in 1..Len(conns) : conns[i] = h THEN World
             ELSE [World EXCEPT !.signalData[c][sig] = Append(@, h)]
    IN /\ Commit(w, NoCall, Result(Undefined, w))
       /\ UNCHANGED <<list, disposeCalls>>
       /\ change' = NoChange

\* cell.dispose(), called by anyone holding the cell
Dispose ==
  \E c \in Created :
    LET w == dispose(World, c)
    IN /\ disposeCalls[c] < MaxCalls
       /\ disposeCalls' = [disposeCalls EXCEPT ![c] = @ + 1]
       /\ Commit(w, NoCall, Result(Undefined, w))
       /\ UNCHANGED list
       /\ change' = NoChange

\* The entries of an output area, and the lists of them that a caller
\* builds.
OutputEntries == {"o1", "o2"}
OutputLists == {<<>>, <<"o1">>, <<"o2">>, <<"o1", "o2">>, <<"o2", "o1">>}

\* cell.output.outputs.add(entry): the output area's list gains the entry
\* at its end.
AddOutput ==
  \E c \in Created, entry \in OutputEntries :
    LET w == [World EXCEPT !.outputs[c].outputs = Append(@, entry)]
    IN /\ cells[c].type = "code"
       /\ cells[c]._output # JNull
       /\ Append(outputs[c].outputs, entry) \in OutputLists
       /\ Commit(w, Call("outputs.add", c, JStr(entry)), Result(Undefined, w))
       /\ UNCHANGED <<list, disposeCalls>>
       /\ change' = NoChange

SetTrusted ==
  \E c \in Created, b \in BOOLEAN :
    LET w == trusted_set(World, c, JBool(b))
    IN /\ Commit(w, Call("trusted", c, JBool(b)), Result(Undefined, w))
       /\ UNCHANGED <<list, disposeCalls>>
       /\ change' = NoChange

SourceValues == {JNull, JStr("a"), JStr("b")}
NameValues == {JNull, JStr("n1"), JStr("n2")}
CountValues == {JNull, JNum(1), JNum(5)}
ScrollValues == {JFalse, JTrue, JStr("auto")}
FormatValues == {JNull, JStr("text/html"), JStr("text/latex")}
NbformatValues == {JNull, JNum(3), JNum(4)}

CodeCells == {c \in CellIds : cells[c].type = "code"}
RawCells == {c \in CellIds : cells[c].type = "raw"}

SetSource ==
  \E c \in Created, v \in SourceValues :
    LET w == source_set(World, c, v)
    IN /\ Commit(w, Call("source", c, v), Result(Undefined, w))
       /\ UNCHANGED <<list, disposeCalls>>
       /\ change' = NoChange

SetName ==
  \E c \in Created, v \in NameValues :
    LET w == name_set(World, c, v)
    IN /\ Commit(w, Call("name", c, v), Result(Undefined, w))
       /\ UNCHANGED <<list, disposeCalls>>
       /\ change' = NoChange

SetTags ==
  \E c \in Created, v \in TagArrays :
    LET w == tags_set(World, c, v)
    IN /\ Commit(w, Call("tags", c, JArr(v)), Result(Undefined, w))
       /\ UNCHANGED <<list, disposeCalls>>
       /\ change' = NoChange

SetExecutionCount ==
  \E c \in CodeCells, v \in CountValues :
    LET w == executionCount_set(World, c, v)
    IN /\ Commit(w, Call("executionCount", c, v), Result(Undefined, w))
       /\ UNCHANGED <<list, disposeCalls>>
       /\ change' = NoChange

SetCollapsed ==
  \E c \in CodeCells, b \in BOOLEAN :
    LET w == collapsed_set(World, c, JBool(b))
    IN /\ Commit(w, Call("collapsed", c, JBool(b)), Result(Undefined, w))
       /\ UNCHANGED <<list, disposeCalls>>
       /\ change' = NoChange

SetScrolled ==
  \E c \in CodeCells, v \in ScrollValues :
    LET w == scrolled_set(World, c, v)
    IN /\ Commit(w, Call("scrolled", c, v), Result(Undefined, w))
       /\ UNCHANGED <<list, disposeCalls>>
       /\ change' = NoChange

SetFormat ==
  \E c \in RawCells, v \in FormatValues :
    LET w == format_set(World, c, v)
    IN /\ Commit(w, Call("format", c, v), Result(Undefined, w))
       /\ UNCHANGED <<list, disposeCalls>>
       /\ change' = NoChange

SetOrigNbformat ==
  \E v \in NbformatValues :
    LET w == origNbformat_set(World, v)
    IN /\ Commit(w, Call("origNbformat", NotebookId, v), Result(Undefined, w))
       /\ UNCHANGED <<list, disposeCalls>>
       /\ change' = NoChange

SetKernelspec ==
  \E v \in KernelSpecs :
    LET w == kernelspec_set(World, v)
    IN /\ Commit(w, Call("kernelspec", NotebookId, JObj(v)), Result(Undefined, w))
       /\ UNCHANGED <<list, disposeCalls>>
       /\ change' = NoChange

SetLanguageInfo ==
  \E v \in LangInfos :
    LET w == languageInfo_set(World, v)
    IN /\ Commit(w, Call("languageInfo", NotebookId, JObj(v)), Result(Undefined, w))
       /\ UNCHANGED <<list, disposeCalls>>
       /\ change' = NoChange

\* notebook.getMetadata(name)
NotebookGetMetadata ==
  \E name \in Namespaces :
    LET r == getMetadata(World, NotebookId, name)
    IN /\ Commit(r.w, Call("getMetadata", NotebookId, JStr(name)),
                 Result(r.value, r.w))
       /\ UNCHANGED <<list, disposeCalls>>
       /\ change' = NoChange

\* cell.getMetadata(name)
CellGetMetadata ==
  \E c \in Created, name \in Namespaces :
    LET r == getMetadata(World, c, name)
    IN /\ Commit(r.w, Call("getMetadata", c, JStr(name)), Result(r.value, r.w))
       /\ UNCHANGED <<list, disposeCalls>>
       /\ change' = NoChange

\* The names under which a caller asks an owner for a cursor; an owner
\* refuses the ones that are typed fields of its own.
CursorNames == {"myext", "languageInfo"}

\* The models that exist: the notebook and the cells constructed so far.
Owners == Created \cup {NotebookId}

\* owner.getMetadata(name).setValue(value).  A cursor holds nothing but its
\* name and references to the owner's map and callback, so the cursor a
\* caller holds is the value getMetadata returned.
SetValueOn(owner, name, value) ==
  LET r == getMetadata(World, owner, name)
      w == setValue(r.w, r.value, value)
  IN /\ r.w.error = "none"
     /\ Commit(w, Call("setValue", r.value, value), Result(Undefined, w))
     /\ UNCHANGED <<list, disposeCalls>>
     /\ change' = NoChange

CursorSetValue ==
  \E owner \in Owners, name \in CursorNames, value \in MetaValues :
    SetValueOn(owner, name, value)

\* The handlers that observers connect and disconnect.
Slots == {"h1", "h2"}

\* The signals of an owner.
SignalsOf(owner) == IF owner = NotebookId THEN NotebookSignals ELSE Signals

\* The list without the handler; the other handlers keep their order.
RECURSIVE Without(_, _)
Without(conns, h) ==
  IF conns = <<>> THEN <<>>
  ELSE IF Head(conns) = h THEN Without(Tail(conns), h)
       ELSE <<Head(conns)>> \o Without(Tail(conns), h)

\* owner.<signal>.connect(handler): a handler that is already connected is
\* not connected again.
ConnectHandler ==
  \E owner \in Owners, h \in Slots :
    \E sig \in SignalsOf(owner) :
      LET conns == signalData[owner][sig]
          w == IF \E i \in 1..Len(conns) : conns[i] = h THEN World
               ELSE [World EXCEPT !.signalData[owner][sig] = Append(@, h)]
      IN /\ Commit(w, Call("connect", owner, JObj([signal |-> sig, handler |-> h])),
                   Result(Undefined, w))
         /\ UNCHANGED <<list, disposeCalls>>
         /\ change' = NoChange

\* owner.<signal>.disconnect(handler)
DisconnectHandler ==
  \E owner \in Owners, h \in Slots :
    \E sig \in SignalsOf(owner) :
      LET w == [World EXCEPT !.signalData[owner][sig] = Without(@, h)]
      IN /\ Commit(w, Call("disconnect", owner,
                           JObj([signal |-> sig, handler |-> h])),
                   Result(Undefined, w))
         /\ UNCHANGED <<list, disposeCalls>>
         /\ change' = NoChange

\* owner.getMetadata(name).getValue()
CursorGetValue ==
  \E owner \in Owners, name \in CursorNames :
    LET r == getMetadata(World, owner, name)
    IN /\ r.w.error = "none"
       /\ Commit(r.w, Call("getValue", r.value, Undefined),
                 Result(getValue(r.w, r.value), r.w))
       /\ UNCHANGED <<list, disposeCalls>>
       /\ change' = NoChange

\* owner.listMetadata()
ListMetadata ==
  \E owner \in Owners :
    /\ Commit(World, Call("listMetadata", owner, Undefined),
              Result(listMetadata(World, owner), World))
    /\ UNCHANGED <<list, disposeCalls>>
    /\ change' = NoChange

\* The next state after an operation on the cell over an input area.
CommitInput(w, cl) ==
  /\ Commit(w, cl, Result(Undefined, w))
  /\ UNCHANGED <<list, disposeCalls>>
  /\ change' = NoChange

\* The construction of the cell with its input area and editor
NewInputCell ==
  /\ ~inputCell.constructed
  /\ CommitInput(CodeCellModel_constructor(World),
                 Call("new CodeCellModel", "cell", Undefined))

\* A change made at the editor itself: editor.<attribute> = value
EditorSet ==
  \E name \in EditorAttributes, b \in BOOLEAN :
    /\ inputCell.constructed
    /\ CommitInput(editor_set(World, name, JBool(b)),
                   Call("editor." \o name, "editor", JBool(b)))

\* cell.mode = value
SetMode ==
  \E value \in {"edit", "command"} :
    /\ inputCell.constructed
    /\ CommitInput(mode_set(World, value), Call("mode", "cell", JStr(value)))

\* cell.mode
GetMode ==
  /\ inputCell.constructed
  /\ Commit(World, Call("mode (get)", "cell", Undefined),
            Result(JStr(mode_get(inputCell)), World))
  /\ UNCHANGED <<list, disposeCalls>>
  /\ change' = NoChange

\* cell.dirty = value
SetDirty ==
  \E b \in BOOLEAN :
    /\ inputCell.constructed
    /\ CommitInput(dirty_set(World, JBool(b)), Call("dirty", "cell", JBool(b)))

\* cell.readOnly = value
SetReadOnly ==
  \E b \in BOOLEAN :
    /\ inputCell.constructed
    /\ CommitInput(readOnly_set(World, JBool(b)),
                   Call("readOnly", "cell", JBool(b)))

\* cell.executionCount = value, on the cell over an input area
SetInputExecutionCount ==
  \E value \in CountValues :
    /\ inputCell.constructed
    /\ CommitInput(executionCount_set_input(World, value),
                   Call("executionCount", "cell", value))

----------------------------------------------------------------------------
(* The observable list of cells (phosphor-observablelist), through         *)
(* NotebookModel.cells.  Indices are 1-based here.                         *)

InsertAt(seq, i, x) == SubSeq(seq, 1, i - 1) \o <<x>> \o SubSeq(seq, i, Len(seq))
RemoveAt(seq, i) == SubSeq(seq, 1, i - 1) \o SubSeq(seq, i + 1, Len(seq))
IndexOf(seq, x) ==
  IF \E i \in 1..Len(seq) : seq[i] = x
  THEN CHOOSE i \in 1..Len(seq) : seq[i] = x /\ \A j \in 1..(i - 1) : seq[j] # x
  ELSE 0

\* The arrays of cells a caller can pass to replace().
ItemArrays == UNION {[1..n -> Created] : n \in 0..MaxList}

\* cells.add(item)
ListAdd ==
  \E c \in Created :
    CommitList(Append(list, c), ListChange("Add", <<>>))

\* cells.insert(index, item)
ListInsert ==
  \E c \in Created, i \in 1..(Len(list) + 1) :
    CommitList(InsertAt(list, i, c), ListChange("Add", <<>>))

\* cells.move(fromIndex, toIndex)
ListMove ==
  \E i \in 1..Len(list), j \in 1..Len(list) :
    CommitList(InsertAt(RemoveAt(list, i), j, list[i]),
               ListChange("Move", <<list[i]>>))

\* cells.set(index, item)
ListSet ==
  \E i \in 1..Len(list), c \in Created :
    CommitList([list EXCEPT ![i] = c], ListChange("Set", <<list[i]>>))

\* cells.removeAt(index)
ListRemoveAt ==
  \E i \in 1..Len(list) :
    CommitList(RemoveAt(list, i), ListChange("Remove", <<list[i]>>))

\* cells.remove(item): the first occurrence
ListRemove ==
  \E c \in Created :
    /\ IndexOf(list, c) # 0
    /\ CommitList(RemoveAt(list, IndexOf(list, c)),
                  ListChange("Remove", <<c>>))

\* cells.replace(index, count, items)
ListReplace ==
  \E i \in 1..(Len(list) + 1) :
    \E count \in 0..(Len(list) + 1 - i), items \in ItemArrays :
      CommitList(SubSeq(list, 1, i - 1) \o items \o SubSeq(list, i + count, Len(list)),
                 ListChange("Replace", SubSeq(list, i, i + count - 1)))

\* cells.clear()
ListClear ==
  CommitList(<<>>, ListChange("Replace", list))

\* The notebook's cell list: construction of cells, connections to their
\* signals, and every operation of the list.
NextCells ==
  \/ CreateCodeCell
  \/ CreateMarkdownCell
  \/ CreateRawCell
  \/ Connect
  \/ ListAdd
  \/ ListInsert
  \/ ListMove
  \/ ListSet
  \/ ListRemoveAt
  \/ ListRemove
  \/ ListReplace
  \/ ListClear

SpecCells == Init /\ [][NextCells]_vars

\* The life of cells outside the list: construction, connections, trust
\* changes and direct calls of dispose().
NextDispose ==
  \/ CreateCodeCell
  \/ CreateMarkdownCell
  \/ CreateRawCell
  \/ Connect
  \/ SetTrusted
  \/ Dispose

SpecDispose == Init /\ [][NextDispose]_vars

\* One cell of any type and the notebook: every value-typed property.
NextProps ==
  \/ (Created = {} /\ CreateCodeCell)
  \/ (Created = {} /\ CreateMarkdownCell)
  \/ (Created = {} /\ CreateRawCell)
  \/ SetSource
  \/ SetTrusted
  \/ SetName
  \/ SetExecutionCount
  \/ SetCollapsed
  \/ SetScrolled
  \/ SetFormat
  \/ SetOrigNbformat

SpecProps == Init /\ [][NextProps]_vars

\* Cells, made new or cloned from another cell, and their tags.
NextTags ==
  \/ CreateCodeCell
  \/ CreateMarkdownCell
  \/ CreateRawCell
  \/ SetTags

SpecTags == Init /\ [][NextTags]_vars

\* The notebook's typed metadata fields.
NextNotebook ==
  \/ SetKernelspec
  \/ SetLanguageInfo
  \/ SetOrigNbformat

SpecNotebook == Init /\ [][NextNotebook]_vars

\* The metadata API of the notebook and of its cells.
NextMeta ==
  \/ CreateCodeCell
  \/ CreateMarkdownCell
  \/ CreateRawCell
  \/ SetTrusted
  \/ SetOrigNbformat
  \/ NotebookGetMetadata
  \/ CellGetMetadata

SpecMeta == Init /\ [][NextMeta]_vars

\* The notebook's metadata: its typed fields and its namespaces.
NextNotebookMeta ==
  \/ NotebookGetMetadata
  \/ CursorSetValue
  \/ CursorGetValue
  \/ ListMetadata
  \/ SetKernelspec
  \/ SetLanguageInfo
  \/ SetOrigNbformat

SpecNotebookMeta == Init /\ [][NextNotebookMeta]_vars

\* Metadata cursors of the notebook and of a cell.
NextCursor ==
  \/ Created = {} /\ CreateCodeCell
  \/ Created = {} /\ CreateMarkdownCell
  \/ CursorSetValue
  \/ CursorGetValue
  \/ ListMetadata

SpecCursor == Init /\ [][NextCursor]_vars

\* The cell factories, on a first cell in any state as the source.
NextClone ==
  \/ CreateCodeCell
  \/ CreateMarkdownCell
  \/ CreateRawCell
  \/ Cardinality(Created) = 1 /\ SetTrusted
  \/ Cardinality(Created) = 1 /\ SetSource
  \/ Cardinality(Created) = 1 /\ SetTags
  \/ Cardinality(Created) = 1 /\ SetCollapsed
  \/ Cardinality(Created) = 1 /\ SetScrolled
  \/ Cardinality(Created) = 1 /\ AddOutput

SpecClone == Init /\ [][NextClone]_vars

\* Trust of the cells the factories make.
NextTrust ==
  \/ CreateCodeCell
  \/ CreateMarkdownCell
  \/ CreateRawCell
  \/ SetTrusted

SpecTrust == Init /\ [][NextTrust]_vars

\* The cell over an input area and its editor.
NextInput ==
  \/ NewInputCell
  \/ EditorSet
  \/ SetMode
  \/ GetMode
  \/ SetDirty
  \/ SetReadOnly
  \/ SetInputExecutionCount

SpecInput == Init /\ [][NextInput]_vars

\* The signals of the notebook and of one cell, with their observers.
NextSignals ==
  \/ Created = {} /\ CreateMarkdownCell
  \/ ConnectHandler
  \/ DisconnectHandler
  \/ SetTrusted
  \/ SetOrigNbformat
  \/ \E owner \in Owners : SetValueOn(owner, "myext", JTrue)

SpecSignals == Init /\ [][NextSignals]_vars

\* Observers of a code cell and of the notebook, and writes of their
\* typed properties.
NextObserved ==
  \/ Created = {} /\ CreateCodeCell
  \/ ConnectHandler
  \/ SetTrusted
  \/ SetSource
  \/ SetKernelspec

SpecObserved == Init /\ [][NextObserved]_vars

----------------------------------------------------------------------------
(* Claims about disposal (C1 - C6).                                        *)

Range(seq) == {seq[i] : i \in DOMAIN seq}

\* Cell c is in the state dispose() is documented to leave it in.
Disposed(c) ==
  /\ cells[c]._disposed
  /\ signalData[c] = NoConnections
  /\ cells[c].type = "code" => outputs[c].disposeCalls = 1

\* C1: after a Remove change of the cell list, the removed cell is disposed:
\* its disposed flag is set, its signal connections are cleared and, for a
\* code cell, the output area's dispose() has been invoked exactly once.
C1_RemovedCellDisposedOnce ==
  change.type = "Remove" => Disposed(change.oldValue[1])

\* C2: a Replace change disposes every previously held cell that is no
\* longer held, and leaves alone every cell the list holds afterwards (also
\* a cell that is among both the old and the new items).
C2_ReplaceDisposesOldNotNew ==
  [][change'.type = "Replace" =>
       \A c \in Range(change'.oldValue) :
         IF c \in Range(list')
         THEN /\ cells'[c] = cells[c]
              /\ outputs'[c] = outputs[c]
              /\ signalData'[c] = signalData[c]
         ELSE Disposed(c)']_vars

\* C3: no cell leaves the cell list undisposed, whichever list operation
\* takes it out.
C3_NoCellLeavesUndisposed ==
  [][\A c \in CellIds :
       (c \in Range(list) /\ c \notin Range(list')) => Disposed(c)']_vars

\* C4: dispose() on a code cell that is not yet disposed disposes the output
\* area and clears the cell's signal connections, so no handler connected
\* before receives a later emission.
C4_DisposeReleasesCodeCell ==
  [][\A c \in CellIds :
       (/\ cells[c].type = "code"
        /\ ~cells[c]._disposed
        /\ disposeCalls'[c] > disposeCalls[c])
       => /\ outputs'[c].disposeCalls = outputs[c].disposeCalls + 1
          /\ signalData'[c] = NoConnections]_vars

\* C5: a second or later dispose() call on a cell throws nothing and changes
\* nothing, and the output area of a code cell is disposed at most once.
C5_DisposeIdempotent ==
  /\ [][\A c \in CellIds :
          (disposeCalls[c] >= 1 /\ disposeCalls'[c] > disposeCalls[c])
          => /\ result'.error = "none"
             /\ cells' = cells
             /\ outputs' = outputs
             /\ signalData' = signalData]_vars
  /\ [](\A c \in CellIds : outputs[c].disposeCalls <= 1)

\* C5's case: dispose() has been called twice on a code cell and on a cell
\* that is not a code cell, with a handler connected to the latter.
C5_Witness ==
  /\ \E c \in CellIds : cells[c].type = "code" /\ disposeCalls[c] >= 2
  /\ \E c \in CellIds :
       /\ cells[c].type \in {"markdown", "raw"}
       /\ disposeCalls[c] >= 2
       /\ signalData[c] # NoConnections

\* C6: isDisposed is false from construction until dispose() is first
\* called, and true from then on.
C6_IsDisposedTracksDispose ==
  \A c \in CellIds :
    cells[c].type # "none" => (isDisposed(cells[c]) <=> disposeCalls[c] >= 1)

----------------------------------------------------------------------------
(* Claims about the property setters (C7 - C9).                            *)

ValueProps ==
  {"source", "trusted", "name", "executionCount", "collapsed", "scrolled",
   "format", "origNbformat"}

\* The value of value-typed property prop of target in (cs, n).
Current(cs, n, target, prop) ==
  CASE prop = "source" -> cs[target]._source
    [] prop = "trusted" -> cs[target]._trusted
    [] prop = "name" -> cs[target]._name
    [] prop = "executionCount" -> cs[target]._executionCount
    [] prop = "collapsed" -> cs[target]._collapsed
    [] prop = "scrolled" -> cs[target]._scrolled
    [] prop = "format" -> cs[target]._format
    [] prop = "origNbformat" -> n._origNbformat

\* The one record a changing write of prop emits.
OneRecord(target, prop, old, new) ==
  <<[sender |-> target,
     signal |-> IF target = NotebookId THEN "contentChanged" ELSE "stateChanged",
     args |-> [name |-> prop, oldValue |-> old, newValue |-> new]]>>

\* C7: writing a value-typed property its current value emits nothing and
\* changes nothing; writing a different value emits exactly one record with
\* the property's name, the previous value and the written value, which is
\* then the property's value.
C7_ValueSetters ==
  [][call'.op \in ValueProps =>
       LET t == call'.target
           p == call'.op
           v == call'.arg
           old == Current(cells, nb, t, p)
       IN IF v = old
          THEN emitted' = <<>> /\ cells' = cells /\ outputs' = outputs /\ nb' = nb
          ELSE /\ emitted' = OneRecord(t, p, old, v)
               /\ Current(cells', nb', t, p) = v
               /\ result'.error = "none"]_vars

\* C7's case: a code cell's scrolled, written 'auto' while it was true.
C7_Witness ==
  /\ call.op = "scrolled"
  /\ emitted = OneRecord(call.target, "scrolled", JTrue, JStr("auto"))
  /\ cells[call.target]._scrolled = JStr("auto")

\* C8: tags are compared by content: writing an array with the same elements
\* in the same order emits nothing, writing any other array emits exactly one
\* 'tags' record with the old and the new array.
C8_TagsByContent ==
  [][call'.op = "tags" =>
       LET t == call'.target
           v == call'.arg
           old == tags_get(cells[t])
       IN IF v.v = old
          THEN emitted' = <<>> /\ cells' = cells
          ELSE /\ emitted' = OneRecord(t, "tags", JArr(old), v)
               /\ tags_get(cells'[t]) = v.v]_vars

\* C8's case: tags ["t1","t2"] written again (nothing emitted) on a cell.
C8_Witness ==
  /\ call.op = "tags"
  /\ call.arg = JArr(<<"t1", "t2">>)
  /\ tags_get(cells[call.target]) = <<"t1", "t2">>
  /\ emitted = <<>>

\* The current value of the notebook property prop.
CurrentObject(n, prop) ==
  IF prop = "kernelspec" THEN kernelspec_get(n) ELSE languageInfo_get(n)

\* C9 as stated: a write of kernelspec or languageInfo whose fields all equal
\* the current value's emits nothing; a write that differs in some field
\* emits exactly one record of that name, and is then the value read.
C9_ObjectSettersAsStated ==
  [][call'.op \in {"kernelspec", "languageInfo"} =>
       LET p == call'.op
           v == call'.arg
           old == CurrentObject(nb, p)
       IN IF v.v = old
          THEN emitted' = <<>> /\ nb' = nb
          ELSE /\ emitted' = OneRecord(NotebookId, p, JObj(old), v)
               /\ CurrentObject(nb', p) = v.v]_vars

\* Every field of new is a primitive that is === to the same field of old.
SameFieldsByIdentity(old, new) ==
  /\ DOMAIN old = DOMAIN new
  /\ \A k \in DOMAIN old : old[k] = new[k] /\ old[k].t \in {"string", "null"}

\* C9, amended: a write emits nothing exactly when the written value has the
\* keys of the current value and every field is a primitive equal to the
\* current one; any other write (one with an object-valued field included)
\* emits exactly one record of that name, and is then the value read.
C9_ObjectSetters ==
  [][call'.op \in {"kernelspec", "languageInfo"} =>
       LET p == call'.op
           v == call'.arg
           old == CurrentObject(nb, p)
       IN IF SameFieldsByIdentity(old, v.v)
          THEN emitted' = <<>> /\ nb' = nb
          ELSE /\ emitted' = OneRecord(NotebookId, p, JObj(old), v)
               /\ CurrentObject(nb', p) = v.v]_vars

\* C9's case: languageInfo written a value equal, field by field, to the
\* current one, whose codemirror_mode is an object: one record is emitted.
C9_Witness ==
  /\ call.op = "languageInfo"
  /\ "codemirror_mode" \in DOMAIN call.arg.v
  /\ call.arg.v.codemirror_mode.t = "object"
  /\ emitted = OneRecord(NotebookId, "languageInfo", call.arg, call.arg)

----------------------------------------------------------------------------
(* Claims about the metadata API (C10).                                    *)

NotebookTypedFields == {"kernelspec", "languageInfo", "origNbformat"}
CellTypedFields ==
  {"tags", "name", "trusted", "collapsed", "scrolled", "execution_count", "format"}

\* C10: getMetadata of a name that is a typed field of the owner throws an
\* error naming that key, returns nothing, changes no state and emits
\* nothing; of any other name it returns a cursor with that name.
C10_GetMetadataReserved ==
  [][call'.op = "getMetadata" =>
       LET owner == call'.target
           name == call'.arg.v
           typed == IF owner = NotebookId THEN NotebookTypedFields
                    ELSE CellTypedFields
       IN /\ cells' = cells /\ outputs' = outputs /\ nb' = nb
          /\ signalData' = signalData /\ list' = list
          /\ emitted' = <<>> /\ delivered' = <<>>
          /\ IF name \in typed
             THEN /\ result'.error = "Error: Use model attribute for " \o name \o " directly"
                  /\ result'.value = Undefined
             ELSE /\ result'.error = "none"
                  /\ result'.value.t = "object"
                  /\ result'.value.v._name = name
                  /\ result'.value.v._metadata = owner]_vars

\* C10's case: a cell was asked for 'execution_count' and threw, naming it.
C10_Witness ==
  /\ call.op = "getMetadata"
  /\ call.target \in CellIds
  /\ call.arg = JStr("execution_count")
  /\ result.error = "Error: Use model attribute for execution_count directly"

----------------------------------------------------------------------------
(* Claims about metadata cursors (C11 - C13).                              *)

\* The models as they are in a given state, as the accessors read them.
Models(cs, n) == [cells |-> cs, nb |-> n]

\* The cursors a caller can hold on the notebook.
NotebookCursors ==
  {MetadataCursor(name, NotebookId) : name \in Namespaces \ NotebookTypedFields}

\* C11: the notebook's metadata namespaces never include kernelspec,
\* languageInfo or origNbformat, listMetadata() never returns one of them,
\* and a write of one of these typed fields changes neither the result of
\* listMetadata() nor the result of any cursor's getValue().
C11_TypedFieldsOutsideMetadata ==
  [][/\ \A i \in 1..Len(nb'._metadata) :
          nb'._metadata[i][1] \notin NotebookTypedFields
     /\ call'.op = "listMetadata" =>
          (call'.target = NotebookId =>
             \A i \in 1..Len(result'.value.v) :
                result'.value.v[i] \notin NotebookTypedFields)
     /\ call'.op \in NotebookTypedFields =>
          /\ listMetadata(Models(cells', nb'), NotebookId)
               = listMetadata(Models(cells, nb), NotebookId)
          /\ \A cursor \in NotebookCursors :
               getValue(Models(cells', nb'), cursor)
                 = getValue(Models(cells, nb), cursor)]_vars

\* C11's case: languageInfo was written and emitted its record while the
\* notebook had a metadata namespace stored.
C11_Witness ==
  /\ call.op = "languageInfo"
  /\ Len(emitted) = 1
  /\ Len(nb._metadata) = 1

\* C12: after cursor.setValue(v), cursor.getValue() returns a value
\* structurally equal to v, whatever the namespace held before.
C12_CursorRoundTrip ==
  [][call'.op = "setValue" =>
       getValue(Models(cells', nb'), call'.target) = call'.arg]_vars

\* C13: setValue(value) emits metadataChanged on the owner exactly when the
\* serialized value differs from the text stored for the namespace: an equal
\* value emits nothing and stores nothing, a different one emits once, with
\* the namespace name as the argument.
C13_SetValueEmitsOnChange ==
  [][call'.op = "setValue" =>
       LET owner == call'.target.v._metadata
           name == call'.target.v._name
           stored == MetadataEntry(MetadataOf(Models(cells, nb), owner), name)
       IN IF stored = JStr(JSON_stringify(call'.arg))
          THEN emitted' = <<>> /\ cells' = cells /\ nb' = nb
          ELSE emitted' = <<[sender |-> owner, signal |-> "metadataChanged",
                             args |-> JStr(name)]>>]_vars

----------------------------------------------------------------------------
(* Claims about the cell factories and trust (C14 - C16).                  *)

\* C14: createCodeCell(source) with a Code source makes a Code cell with the
\* source's output entries, in the same order and number, and the source's
\* trusted, source text, tags, collapsed and scrolled.
C14_CloneCodeFromCode ==
  [][(call'.op = "createCodeCell" /\ call'.arg.v # <<>>
        /\ cells[call'.arg.v[1]].type = "code") =>
       LET new == call'.target
           src == call'.arg.v[1]
       IN /\ result'.error = "none"
          /\ cells'[new].type = "code"
          /\ outputs'[new].outputs = outputs[src].outputs
          /\ cells'[new]._trusted = cells[src]._trusted
          /\ cells'[new]._source = cells[src]._source
          /\ tags_get(cells'[new]) = tags_get(cells[src])
          /\ cells'[new]._collapsed = cells[src]._collapsed
          /\ cells'[new]._scrolled = cells[src]._scrolled]_vars

\* C14's case: a Code cell was cloned from an untrusted, collapsed Code cell
\* with two different output entries and a tag.
C14_Witness ==
  /\ call.op = "createCodeCell"
  /\ call.arg.v # <<>>
  /\ cells[call.arg.v[1]].type = "code"
  /\ cells[call.arg.v[1]]._trusted = JFalse
  /\ outputs[call.target].outputs = <<"o2", "o1">>
  /\ cells[call.target]._collapsed = JTrue
  /\ tags_get(cells[call.target]) # <<>>

\* C15: createCodeCell(source) with a Markdown or Raw source copies trusted,
\* source text and tags only: collapsed and scrolled are false,
\* executionCount is null, the output list is empty, and the source cell
\* is as it was.
C15_CloneCodeFromOther ==
  [][(call'.op = "createCodeCell" /\ call'.arg.v # <<>>
        /\ cells[call'.arg.v[1]].type \in {"markdown", "raw"}) =>
       LET new == call'.target
           src == call'.arg.v[1]
       IN /\ result'.error = "none"
          /\ cells'[new].type = "code"
          /\ cells'[new]._trusted = cells[src]._trusted
          /\ cells'[new]._source = cells[src]._source
          /\ tags_get(cells'[new]) = tags_get(cells[src])
          /\ cells'[new]._collapsed = JFalse
          /\ cells'[new]._scrolled = JFalse
          /\ cells'[new]._executionCount = JNull
          /\ outputs'[new].outputs = <<>>
          /\ cells'[src] = cells[src]
          /\ signalData'[src] = signalData[src]]_vars

\* C15's case: a Code cell was cloned from an untrusted Markdown cell that
\* has a source text and two tags.
C15_Witness ==
  /\ call.op = "createCodeCell"
  /\ call.arg.v # <<>>
  /\ cells[call.arg.v[1]].type = "markdown"
  /\ cells[call.target]._trusted = JFalse
  /\ cells[call.target]._source = JStr("a")
  /\ Len(tags_get(cells[call.target])) = 2

\* C16: the output area of every Code cell has the cell's trusted flag.
C16_TrustPropagated ==
  \A c \in CellIds :
    cells[c].type = "code" => outputs[c].trusted = cells[c]._trusted

\* C16's case: a write made a Code cell trusted while another Code cell
\* is untrusted.
C16_Witness ==
  /\ call.op = "trusted"
  /\ cells[call.target].type = "code"
  /\ cells[call.target]._trusted = JTrue
  /\ \E c \in CellIds : cells[c].type = "code" /\ cells[c]._trusted = JFalse

----------------------------------------------------------------------------
(* Claims about the cell over an input area (C17, C19, C20).               *)

\* The records of one sender among emitted records
RECURSIVE RecordsOf(_, _)
RecordsOf(records, sender) ==
  IF records = <<>> THEN <<>>
  ELSE IF Head(records).sender = sender
       THEN <<Head(records).args>> \o RecordsOf(Tail(records), sender)
       ELSE RecordsOf(Tail(records), sender)

\* C17: the prompt of a constructed code cell is "In [ ]:" while its
\* executionCount is null and "In [n]:" while it is the number n, and a
\* write that changes executionCount emits one executionCount record.
C17_PromptFollowsExecutionCount ==
  /\ [](inputCell.constructed =>
          /\ inputCell.executionCount = JNull =>
               inputCell.input.prompt = JStr("In [ ]:")
          /\ inputCell.executionCount = JNum(1) =>
               inputCell.input.prompt = JStr("In [1]:")
          /\ inputCell.executionCount = JNum(5) =>
               inputCell.input.prompt = JStr("In [5]:"))
  /\ [][(call'.op = "executionCount"
           /\ inputCell'.executionCount # inputCell.executionCount) =>
          RecordsOf(emitted', "cell")
            = <<ChangedArgs("executionCount", inputCell.executionCount,
                            inputCell'.executionCount)>>]_vars

\* C17's case: after 5, null was written: one record from 5 to null, and
\* the prompt is "In [ ]:" again.
C17_Witness ==
  /\ call.op = "executionCount"
  /\ RecordsOf(emitted, "cell") = <<ChangedArgs("executionCount", JNum(5), JNull)>>
  /\ inputCell.input.prompt = JStr("In [ ]:")

\* C19: a change of the editor's dirty or readOnly flag is re-emitted once,
\* as the same record, on the cell's stateChanged; a change of another
\* editor attribute is not re-emitted under its name.
C19_EditorChangesReemitted ==
  [][\A name \in EditorAttributes :
       inputCell'.editor[name] # inputCell.editor[name] =>
         LET args == ChangedArgs(name, inputCell.editor[name],
                                 inputCell'.editor[name])
         IN IF name \in {"dirty", "readOnly"}
            THEN RecordsOf(emitted', "cell") = <<args>>
            ELSE \A i \in 1..Len(emitted') :
                   emitted'[i].sender = "cell" => emitted'[i].args.name # name]_vars

\* C20: mode reads 'edit' exactly when the editor is focused; a write of
\* mode makes the editor focused exactly for 'edit'; and a change of the
\* editor's focused flag emits one 'mode' record on the cell, from the mode
\* before to the mode after.
C20_ModeFollowsFocus ==
  [][/\ call'.op = "mode (get)" =>
          result'.value = JStr(IF inputCell.editor.focused = JTrue
                               THEN "edit" ELSE "command")
     /\ call'.op = "mode" =>
          inputCell'.editor.focused = JBool(call'.arg = JStr("edit"))
     /\ inputCell'.editor.focused # inputCell.editor.focused =>
          RecordsOf(emitted', "cell")
            = <<ChangedArgs("mode",
                            JStr(IF inputCell.editor.focused = JTrue
                                 THEN "edit" ELSE "command"),
                            JStr(IF inputCell'.editor.focused = JTrue
                                 THEN "edit" ELSE "command"))>>]_vars

\* C20's case: a write of mode = 'command' took the focus from the editor
\* and the cell announced the change from 'edit' to 'command'.
C20_Witness ==
  /\ call.op = "mode"
  /\ call.arg = JStr("command")
  /\ inputCell.editor.focused = JFalse
  /\ RecordsOf(emitted, "cell")
       = <<ChangedArgs("mode", JStr("edit"), JStr("command"))>>

----------------------------------------------------------------------------
(* Claims about signal delivery (C18).                                     *)

\* The handlers to which a sequence of delivery records went, in order.
HandlersOf(records) == [i \in 1..Len(records) |-> records[i].handler]

----------------------------------------------------------------------------
(* Claims about the content of tags (C21).                                 *)

\* C21: no constructed cell's tags array holds the same string twice.
C21_TagsUnique ==
  \A c \in CellIds :
    cells[c].type # "none" =>
      LET tags == tags_get(cells[c])
      IN \A i, j \in 1..Len(tags) : tags[i] = tags[j] => i = j

----------------------------------------------------------------------------
(* Claims about the order of storing and announcing (C22).                 *)

\* What a handler reads of property name of sender in the models m.
ReadProperty(m, sender, name) ==
  CASE name = "kernelspec" -> JObj(kernelspec_get(m.nb))
    [] name = "languageInfo" -> JObj(languageInfo_get(m.nb))
    [] name = "tags" -> JArr(tags_get(m.cells[sender]))
    [] OTHER -> Current(m.cells, m.nb, sender, name)

\* C22: every handler to which a change record of a typed property is
\* delivered finds, when it reads that property of the sender, the record's
\* newValue; and for a 'trusted' record of a Code cell it finds the output
\* area's trusted flag equal to newValue.
C22_StoredBeforeAnnounced ==
  \A i \in 1..Len(delivered) :
    delivered[i].signal \in {"stateChanged", "contentChanged"} =>
      LET d == delivered[i]
          m == observed[i]
      IN /\ ReadProperty(m, d.sender, d.args.name) = d.args.newValue
         /\ (d.args.name = "trusted" /\ m.cells[d.sender].type = "code") =>
              m.outputs[d.sender].trusted = d.args.newValue

\* C22's case: a handler connected to a Code cell's stateChanged received
\* the record of the cell becoming untrusted.
C22_Witness ==
  /\ call.op = "trusted"
  /\ Len(delivered) > 0
  /\ delivered[1].args = ChangedArgs("trusted", JTrue, JFalse)
  /\ cells[delivered[1].sender].type = "code"

====
